---- MODULE Spec2Model ----
(***************************************************************************)
(* Model of pomodoro.py: a Textual application showing a list of countdown *)
(* timers (PomodoroTimer, each owning one TimeDisplay) with a quit dialog  *)
(* (QuitScreen).                                                           *)
(*                                                                         *)
(* Time is counted in whole seconds: monotonic() is the variable now, and  *)
(* the float attributes start_time, time and total are integers.           *)
(*                                                                         *)
(* Textual's reactive attributes are modelled as the library defines them: *)
(* assigning a reactive attribute stores the value and calls watch_<name>  *)
(* synchronously, only when the value differs from the current one, and a  *)
(* watcher taking two parameters receives (old value, new value).          *)
(***************************************************************************)
EXTENDS Integers, Sequences, FiniteSets

VARIABLES
    now,        \* the value monotonic() returns
    timers,     \* the PomodoroTimer widgets mounted in #timers, in DOM order
    lifecycle,  \* "Running" | "ConfirmingQuit" (QuitScreen pushed) | "Terminated"
                \* (exit() was called) | "Crashed" (a handler raised)
    dark,       \* App.dark
    gone,       \* the interval of the widget removed last (<<>> if none): whether
                \* it was running at the removal, and whether it still fires
    last,       \* history: the handler that ran last, and the timer it ran on
    calls,      \* history: calls of action_set_finished made by that handler
    presses     \* history: button presses on timers so far

vars == <<now, timers, lifecycle, dark, gone, last, calls, presses>>

\* Bounds of the model.
MaxClock == 3       \* monotonic() is explored up to this value
MaxTotal == 3       \* stop() is explored while total stays within this value
MaxTimers == 3      \* timers are added while the list is shorter than this
MaxPresses == 1     \* button presses on timers explored from construction (Spec)

\* total = reactive(1.0)
DefaultTotal == 1
\* compose() yields three PomodoroTimer widgets
InitialTimers == 3

-----------------------------------------------------------------------------
(* TimeDisplay *)

\* The (hours, minutes, seconds) the f-string of watch_time renders.
Format(t) == <<(t \div 60) \div 60, (t \div 60) % 60, t % 60>>

\* self.update(f"00:00:00.00")
ZeroText == <<0, 0, 0>>

\* A timer whose interval is created without pause=True.
NewTimerUnpaused(c) ==
    [ start_time |-> c, time |-> 0, total |-> DefaultTotal, finished |-> FALSE,
      ticking |-> TRUE, text |-> Format(0), started |-> FALSE, marked |-> FALSE,
      noted |-> 0, ran |-> 0, hist |-> "fresh" ]

\* A PomodoroTimer with its TimeDisplay, as mounted at clock value c.
\* ran and hist are history fields: the running time summed over the
\* start/stop intervals completed so far, and the shape of the presses so far.
NewTimer(c) ==
    [ start_time |-> c,         \* reactive(monotonic)
      time       |-> 0,         \* reactive(0.0)
      total      |-> DefaultTotal,
      finished   |-> FALSE,     \* reactive(False)
      ticking    |-> FALSE,     \* update_timer is not paused
      text       |-> Format(0), \* what update() rendered last
      started    |-> FALSE,     \* CSS class "started" of the PomodoroTimer
      marked     |-> FALSE,     \* CSS class "finished" of the PomodoroTimer
      noted      |-> 0,         \* action_set_finished calls of the handler in progress
      ran        |-> 0,
      hist       |-> "fresh" ]

\* PomodoroTimer.action_set_finished, called from watch_time.
ActionSetFinished(t) ==
    [t EXCEPT !.marked = TRUE, !.noted = @ + 1]

\* Assignment self.time = v: nothing if the value is the current one; else the
\* value is stored and watch_time(old, new) runs. watch_time names its first
\* parameter time, so the value it tests and renders is the old one.
RECURSIVE SetTime(_, _)
SetTime(t, v) ==
    IF t.time = v THEN t
    ELSE LET old == t.time
             s == [t EXCEPT !.time = v]
         IN  IF old < 0
             THEN LET paused == [s EXCEPT !.ticking = FALSE]
                      zeroed == SetTime(paused, 0)
                      shown == [zeroed EXCEPT !.text = ZeroText, !.finished = TRUE]
                  IN  ActionSetFinished(shown)
             ELSE [s EXCEPT !.text = Format(old)]

\* TimeDisplay.update_time
UpdateTime(t) == SetTime(t, t.total - (now - t.start_time))

\* A start() that also clears the finished flag.
StartClearsFinished(t) ==
    [t EXCEPT !.start_time = now, !.ticking = TRUE, !.finished = FALSE]

\* TimeDisplay.start
Start(t) == [t EXCEPT !.start_time = now, !.ticking = TRUE]

\* TimeDisplay.stop
Stop(t) ==
    LET paused == [t EXCEPT !.ticking = FALSE]
        summed == [paused EXCEPT !.total = @ + (now - t.start_time)]
    IN  SetTime(summed, summed.total)

\* A reset() that clears total and leaves time alone.
ResetTotalOnly(t) == [t EXCEPT !.total = 0]

\* TimeDisplay.reset
Reset(t) == SetTime([t EXCEPT !.total = 0], 0)

-----------------------------------------------------------------------------
(* PomodoroTimer.on_button_pressed *)

\* The history fields after a press: a completed running interval is added to
\* ran, and hist stays within fresh/running/stopped only while start and stop
\* alternate and nothing else happened to the timer.
HistAfter(t, button) ==
    CASE button = "start" /\ t.hist \in {"fresh", "stopped"} /\ ~t.ticking -> "running"
      [] button = "stop" /\ t.hist = "running" /\ t.ticking -> "stopped"
      [] OTHER -> "other"

RanAfter(t, button) ==
    IF button = "stop" /\ t.ticking THEN t.ran + (now - t.start_time) ELSE t.ran

\* A finish branch that marks the widget finished besides resetting.
OnButtonPressedFinishMarks(t, button) ==
    CASE button = "start" -> [Start(t) EXCEPT !.started = TRUE]
      [] button = "stop" -> [Stop(t) EXCEPT !.started = FALSE]
      [] button = "finish" -> [Reset(t) EXCEPT !.finished = TRUE, !.marked = TRUE]
      [] button = "reset" -> Reset(t)
      [] OTHER -> t

\* A stop branch that leaves the class "started" on the widget.
OnButtonPressedStopKeepsClass(t, button) ==
    CASE button = "start" -> [Start(t) EXCEPT !.started = TRUE]
      [] button = "stop" -> Stop(t)
      [] button = "finish" -> Reset(t)
      [] button = "reset" -> Reset(t)
      [] OTHER -> t

OnButtonPressed(t, button) ==
    CASE button = "start" -> [Start(t) EXCEPT !.started = TRUE]
      [] button = "stop" -> [Stop(t) EXCEPT !.started = FALSE]
      [] button = "finish" -> Reset(t)
      [] button = "reset" -> Reset(t)
      [] OTHER -> t

Buttons == {"start", "stop", "finish", "reset"}

\* One handler run on timer i: the timer becomes t, and the history variables
\* record the handler and the action_set_finished calls it made.
Ran(op, i, t) ==
    /\ timers' = [timers EXCEPT ![i] = [t EXCEPT !.noted = 0]]
    /\ last' = [op |-> op, i |-> i]
    /\ calls' = t.noted

PressOn(i, button) ==
    /\ lifecycle = "Running"
    /\ i \in 1..Len(timers)
    /\ LET t == timers[i]
           u == OnButtonPressed(t, button)
       IN  /\ u.total <= MaxTotal
           /\ Ran(button, i,
                  [u EXCEPT !.hist = IF u.noted > 0 THEN "other" ELSE HistAfter(t, button),
                            !.ran = RanAfter(t, button)])
    /\ UNCHANGED <<now, lifecycle, dark, gone>>

\* A press counted against MaxPresses.
Press(i, button) ==
    /\ presses < MaxPresses
    /\ PressOn(i, button)
    /\ presses' = presses + 1

\* A press in the single-timer specification, which explores every sequence.
PressFree(i, button) ==
    /\ PressOn(i, button)
    /\ UNCHANGED presses

\* The interval callback update_time, fired by the event loop while the
\* interval is not paused or stopped and the application has not exited. The
\* interval is that of timer i of the list, or for i = 0 that of the widget
\* removed last, whose callback finds no mounted widget to update.
Tick(i) ==
    /\ lifecycle \in {"Running", "ConfirmingQuit"}
    /\ i \in 0..Len(timers)
    /\ IF i = 0
       THEN /\ Len(gone) > 0
            /\ gone[1].ticking
            /\ timers' = timers
            /\ last' = [op |-> "tick", i |-> 0]
            /\ calls' = 0
       ELSE /\ timers[i].ticking
            /\ LET u == UpdateTime(timers[i])
               IN  Ran("tick", i, [u EXCEPT !.hist = IF u.noted > 0 THEN "other" ELSE @])
    /\ UNCHANGED <<now, lifecycle, dark, gone, presses>>

\* monotonic() advances.
Advance ==
    /\ now < MaxClock
    /\ now' = now + 1
    /\ UNCHANGED <<timers, lifecycle, dark, gone, last, calls, presses>>

-----------------------------------------------------------------------------
(* PomodoroApp *)

\* The handlers bound to the main screen run while it is the active screen.
Handled(op) ==
    /\ last' = [op |-> op, i |-> 0]
    /\ calls' = 0

\* PomodoroApp.action_add_pomodoro_timer
ActionAddPomodoroTimer ==
    /\ lifecycle = "Running"
    /\ Len(timers) < MaxTimers
    /\ timers' = Append(timers, NewTimer(now))
    /\ Handled("add")
    /\ UNCHANGED <<now, lifecycle, dark, gone, presses>>

\* A removal of timers.first() instead.
RemoveFirst(s) ==
    IF Len(s) = 0
    THEN [timers |-> s, raised |-> TRUE, gone |-> gone]
    ELSE [timers |-> SubSeq(s, 2, Len(s)), raised |-> FALSE,
          gone |-> <<[running |-> s[1].ticking, ticking |-> FALSE]>>]

\* A removal that leaves the interval of the removed widget registered.
RemoveLastKeepsInterval(s) ==
    IF Len(s) = 0
    THEN [timers |-> s, raised |-> TRUE, gone |-> gone]
    ELSE [timers |-> SubSeq(s, 1, Len(s) - 1), raised |-> FALSE,
          gone |-> <<[running |-> s[Len(s)].ticking, ticking |-> s[Len(s)].ticking]>>]

\* timers.last().remove(): last() raises NoMatches on an empty query result;
\* remove() takes the widget out of the list and closes its message pump, which
\* stops the intervals the widget registered (update_timer).
RemoveLast(s) ==
    IF Len(s) = 0
    THEN [timers |-> s, raised |-> TRUE, gone |-> gone]
    ELSE [timers |-> SubSeq(s, 1, Len(s) - 1), raised |-> FALSE,
          gone |-> <<[running |-> s[Len(s)].ticking, ticking |-> FALSE]>>]

\* The handler without its "if timers:" test.
RemoveUnguarded(s) == RemoveLast(s)

\* The body of action_remove_pomodoro_timer on the query result s.
RemovePomodoroTimer(s) ==
    IF Len(s) > 0 THEN RemoveLast(s) ELSE [timers |-> s, raised |-> FALSE, gone |-> gone]

\* PomodoroApp.action_remove_pomodoro_timer
ActionRemovePomodoroTimer ==
    /\ lifecycle = "Running"
    /\ LET r == RemovePomodoroTimer(timers)
       IN  /\ timers' = r.timers
           /\ gone' = r.gone
           /\ lifecycle' = IF r.raised THEN "Crashed" ELSE lifecycle
    /\ Handled("remove")
    /\ UNCHANGED <<now, dark, presses>>

\* PomodoroApp.action_toggle_dark
ActionToggleDark ==
    /\ lifecycle = "Running"
    /\ dark' = ~dark
    /\ Handled("dark")
    /\ UNCHANGED <<now, timers, lifecycle, gone, presses>>

\* A quit request that exits at once.
PushQuitScreenExits == "Terminated"

\* self.push_screen(QuitScreen())
PushQuitScreen == "ConfirmingQuit"

\* PomodoroApp.action_request_quit
ActionRequestQuit ==
    /\ lifecycle = "Running"
    /\ lifecycle' = PushQuitScreen
    /\ Handled("request_quit")
    /\ UNCHANGED <<now, timers, dark, gone, presses>>

-----------------------------------------------------------------------------
(* QuitScreen *)

\* A quit that pops the dialog instead of exiting.
ExitPops == "Running"

\* self.app.exit()
Exit == "Terminated"

\* A cancel that exits.
PopScreenExits == "Terminated"

\* self.app.pop_screen()
PopScreen == "Running"

\* QuitScreen.on_button_pressed
QuitOnButtonPressed(button) ==
    /\ lifecycle = "ConfirmingQuit"
    /\ lifecycle' = IF button = "quit" THEN Exit ELSE PopScreen
    /\ Handled(IF button = "quit" THEN "quit_button" ELSE "cancel_button")
    /\ UNCHANGED <<now, timers, dark, gone, presses>>

\* QuitScreen.action_request_cancel
QuitActionRequestCancel ==
    /\ lifecycle = "ConfirmingQuit"
    /\ lifecycle' = PopScreen
    /\ Handled("cancel_key")
    /\ UNCHANGED <<now, timers, dark, gone, presses>>

\* QuitScreen.action_request_quit
QuitActionRequestQuit ==
    /\ lifecycle = "ConfirmingQuit"
    /\ lifecycle' = Exit
    /\ Handled("quit_key")
    /\ UNCHANGED <<now, timers, dark, gone, presses>>

-----------------------------------------------------------------------------

Init ==
    /\ now = 0
    /\ timers = [i \in 1..InitialTimers |-> NewTimer(0)]
    /\ lifecycle = "Running"
    /\ dark = TRUE
    /\ gone = <<>>
    /\ last = [op |-> "mount", i |-> 0]
    /\ calls = 0
    /\ presses = 0

PressAny == \E i \in 1..MaxTimers : \E b \in Buttons : Press(i, b)

TickAny == \E i \in 0..MaxTimers : Tick(i)

QuitButtonAny == \E b \in {"quit", "cancel"} : QuitOnButtonPressed(b)

Next ==
    \/ Advance
    \/ PressAny
    \/ TickAny
    \/ ActionAddPomodoroTimer
    \/ ActionRemovePomodoroTimer
    \/ ActionToggleDark
    \/ ActionRequestQuit
    \/ QuitButtonAny
    \/ QuitActionRequestCancel
    \/ QuitActionRequestQuit

Spec == Init /\ [][Next]_vars

\* One timer on its own: the state after the last two of the three initial
\* timers were removed at once, then every sequence of presses, ticks and clock
\* advances on the remaining timer (a TimeDisplay handler reads and writes its
\* own widget only).
InitTimer ==
    /\ now = 0
    /\ timers = <<NewTimer(0)>>
    /\ lifecycle = "Running"
    /\ dark = TRUE
    /\ gone = <<[running |-> FALSE, ticking |-> FALSE]>>
    /\ last = [op |-> "remove", i |-> 0]
    /\ calls = 0
    /\ presses = 0

PressFreeAny == \E b \in Buttons : PressFree(1, b)

NextTimer ==
    \/ Advance
    \/ PressFreeAny
    \/ Tick(1)

SpecTimer == InitTimer /\ [][NextTimer]_vars

TypeOK ==
    /\ now \in 0..MaxClock
    /\ lifecycle \in {"Running", "ConfirmingQuit", "Terminated", "Crashed"}
    /\ dark \in BOOLEAN
    /\ Len(timers) <= MaxTimers
    /\ Len(gone) <= 1
    /\ \A i \in 1..Len(timers) : timers[i].total \in 0..MaxTotal

-----------------------------------------------------------------------------
(* Properties of one timer *)

\* The handler op ran last, on timer i.
Did(op, i) == last = [op |-> op, i |-> i]

\* The value update_time computes for timer t at the current clock value.
Remaining(t) == t.total - (now - t.start_time)

\* C1: after each stop of a timer that has only seen alternating start and stop
\* presses (and ticks, and no finish), the displayed time equals the initial
\* budget minus the sum of the running intervals so far.
C1_StopShowsBudgetMinusRun ==
    \A i \in 1..Len(timers) :
        (Did("stop", i) /\ timers[i].hist = "stopped")
            => timers[i].time = DefaultTotal - timers[i].ran

\* A tick handler that paused its own timer: the tick that found the time
\* below zero.
Crossed(i) == Did("tick", i) /\ ~timers[i].ticking

\* C2: when a tick finds the time below zero, the displayed time is clamped to
\* zero, the tick is paused, and action_set_finished is called exactly once.
C2_FinishedNotifiedOnce ==
    \A i \in 1..Len(timers) :
        Crossed(i) =>
            /\ timers[i].time = 0
            /\ timers[i].finished
            /\ timers[i].marked
            /\ calls = 1

C4_StopWhilePausedKeepsBudget ==
    [][\A i \in 1..Len(timers) :
          (PressOn(i, "stop") /\ ~timers[i].ticking)
              => timers'[i].total = timers[i].total]_vars

\* C5: start() on a running timer changes nothing observable: the remaining
\* time the next tick computes is the same after the call as before it.
C5_StartWhileRunningIdempotent ==
    [][\A i \in 1..Len(timers) :
          (PressOn(i, "start") /\ timers[i].ticking)
              => Remaining(timers'[i]) = Remaining(timers[i])]_vars

-----------------------------------------------------------------------------
(* Properties of the application *)

\* C6: removing from a non-empty list removes exactly the last timer: the
\* list after the step is the list before it without its last element.
C6_RemoveDropsLast ==
    [][(ActionRemovePomodoroTimer /\ Len(timers) > 0)
          => /\ Len(timers') = Len(timers) - 1
             /\ \A i \in 1..Len(timers') : timers'[i] = timers[i]]_vars

\* A removal has acted on a list whose timers differed: two timers remain, the
\* first running and shown as started, the second never started.
C6_Witness ==
    /\ last.op = "remove"
    /\ Len(timers) = 2
    /\ timers[1].ticking
    /\ timers[1].time # timers[2].time
    /\ ~timers[2].ticking

\* C7: removing from an empty list leaves the list empty and the rest of the
\* application as it was, and raises nothing.
C7_RemoveOnEmptyIsNoOp ==
    [][(ActionRemovePomodoroTimer /\ Len(timers) = 0)
          => /\ timers' = <<>>
             /\ lifecycle' = "Running"
             /\ UNCHANGED <<now, dark, gone, presses>>]_vars

\* The remove handler ran while the list was empty, and the application runs on.
C7_Witness ==
    /\ last.op = "remove"
    /\ Len(timers) = 0
    /\ lifecycle = "Running"
    /\ presses > 0

\* C8: adding appends exactly one timer at the end, with the default budget,
\* not finished and its tick paused; the timers before it are unchanged.
C8_AddAppendsFreshTimer ==
    [][ActionAddPomodoroTimer
          => /\ Len(timers') = Len(timers) + 1
             /\ \A i \in 1..Len(timers) : timers'[i] = timers[i]
             /\ timers'[Len(timers')].total = DefaultTotal
             /\ ~timers'[Len(timers')].finished
             /\ ~timers'[Len(timers')].ticking]_vars

\* A timer was added behind a running one, after the clock had advanced.
C8_Witness ==
    /\ last.op = "add"
    /\ Len(timers) >= 2
    /\ timers[1].ticking
    /\ timers[Len(timers)].start_time > 0
    /\ timers[Len(timers)].hist = "fresh"

\* C9: a cancel of the quit dialog (button or key) returns to Running and
\* changes no timer; neither does the request that opened the dialog.
C9_CancelReturnsToRunning ==
    [][/\ (QuitActionRequestCancel \/ QuitOnButtonPressed("cancel"))
            => (lifecycle' = "Running" /\ timers' = timers /\ dark' = dark)
       /\ ActionRequestQuit
            => (lifecycle' = "ConfirmingQuit" /\ timers' = timers /\ dark' = dark)]_vars

\* The dialog was cancelled while a timer was running whose time a tick had
\* taken below zero.
C9_Witness ==
    /\ last.op \in {"cancel_key", "cancel_button"}
    /\ lifecycle = "Running"
    /\ \E i \in 1..Len(timers) : timers[i].ticking /\ timers[i].time < 0

\* C10: a confirm of the quit dialog (button or key) terminates the application,
\* and once terminated no tick fires and nothing of the application changes.
C10_ConfirmTerminates ==
    [][/\ (QuitActionRequestQuit \/ QuitOnButtonPressed("quit"))
            => lifecycle' = "Terminated"
       /\ lifecycle = "Terminated"
            => UNCHANGED <<timers, lifecycle, dark, gone, last, calls, presses>>]_vars

\* The application terminated while a timer was running, and the clock went on.
C10_Witness ==
    /\ lifecycle = "Terminated"
    /\ last.op \in {"quit_key", "quit_button"}
    /\ \E i \in 1..Len(timers) : timers[i].ticking /\ now > timers[i].start_time

-----------------------------------------------------------------------------
(* Further properties *)

\* C11: the lifecycle changes only Running -> ConfirmingQuit (by the quit
\* request, which never terminates), ConfirmingQuit -> Running and
\* ConfirmingQuit -> Terminated, the last only by a confirm of the dialog.
C11_LifecycleTransitions ==
    [][/\ ActionRequestQuit => lifecycle' = "ConfirmingQuit"
       /\ lifecycle' # lifecycle =>
            \/ lifecycle = "Running" /\ lifecycle' = "ConfirmingQuit"
            \/ lifecycle = "ConfirmingQuit" /\ lifecycle' = "Running"
            \/ /\ lifecycle = "ConfirmingQuit" /\ lifecycle' = "Terminated"
               /\ (QuitActionRequestQuit \/ QuitOnButtonPressed("quit"))]_vars

\* The quit request has acted a second time, after a cancel: the dialog is open
\* and the application has not terminated.
C11_Witness ==
    /\ last.op = "request_quit"
    /\ lifecycle = "ConfirmingQuit"
    /\ ~dark
    /\ presses > 0

\* C12: a timer whose tick is paused shows a displayed time equal to its budget.
C12_PausedShowsBudget ==
    \A i \in 1..Len(timers) :
        ~timers[i].ticking => timers[i].time = timers[i].total

C14_ResetKeepsTick ==
    [][\A i \in 1..Len(timers) :
          (PressOn(i, "reset") \/ PressOn(i, "finish"))
              => timers'[i].ticking = timers[i].ticking]_vars

\* C15: from every reachable state of a timer, the finish button leaves the
\* timer and its widget in the state the reset button leaves them in.
C15_FinishEqualsReset ==
    \A i \in 1..Len(timers) :
        OnButtonPressed(timers[i], "finish") = OnButtonPressed(timers[i], "reset")

\* The finish button has acted on a running timer whose time was below zero,
\* which finished it.
C15_Witness ==
    /\ Did("finish", 1)
    /\ calls = 1
    /\ timers[1].finished
    /\ timers[1].started

\* C16: a widget carries the class "started" if and only if its tick is running.
C16_StartedIffTicking ==
    \A i \in 1..Len(timers) : timers[i].started <=> timers[i].ticking

\* C16 as amended: a running tick implies the class "started", and a widget
\* with the class whose tick is paused has finished.
C16_StartedUnlessFinished ==
    \A i \in 1..Len(timers) :
        /\ timers[i].ticking => timers[i].started
        /\ (timers[i].started /\ ~timers[i].ticking) => timers[i].finished

\* A tick finished the countdown: the tick is paused and the widget still
\* carries "started".
C16_Witness ==
    /\ Crossed(1)
    /\ timers[1].started
    /\ timers[1].finished
    /\ timers[1].marked

\* C17: after a reset (or finish) press on a running timer, the next tick at a
\* later clock value puts the timer in the finished state: tick paused, time
\* zero, widget marked finished.
C17_ResetWhileRunningFinishesAtNextTick ==
    [][\A i \in 1..Len(timers) :
          (/\ Did("reset", i) \/ Did("finish", i)
           /\ timers[i].ticking
           /\ now > timers[i].start_time
           /\ Tick(i))
              => /\ ~timers'[i].ticking
                 /\ timers'[i].time = 0
                 /\ timers'[i].finished
                 /\ timers'[i].marked]_vars

\* C18: once a timer is finished and its widget marked, both stay so through
\* every press and tick while the timer is in the list.
C18_FinishedAbsorbing ==
    [][\A i \in 1..Len(timers) :
          (i <= Len(timers') /\ timers[i].finished /\ timers[i].marked)
              => (timers'[i].finished /\ timers'[i].marked)]_vars

\* A finished timer was started again and is running, still finished and marked.
C18_Witness ==
    /\ Did("start", 1)
    /\ timers[1].ticking
    /\ timers[1].finished
    /\ timers[1].marked
    /\ now > timers[1].start_time

====
